---------------------------- MODULE Spec2Model ----------------------------
(***************************************************************************)
(* ActivityLogger: the chat time-tracker of src/bot.py and                 *)
(* src/features/report.py, as a state machine.                             *)
(*                                                                         *)
(* The store is the spreadsheet (one record per row, below the header row).*)
(* Every cell, every inbound text and every token is a Python str,         *)
(* modelled as a sequence of characters (one-character strings; a Cyrillic *)
(* letter is written as its code point, "u0440").  A datetime is a record  *)
(* [day, sec, us]: the day of the month, the second of the day and the     *)
(* microsecond; every instant of the model lies in one month, so that the  *)
(* wall-clock difference of two instants is computed from these fields     *)
(* (all datetimes of the program carry the same tzinfo object, and Python  *)
(* subtracts such datetimes by their wall-clock fields).                   *)
(***************************************************************************)
EXTENDS Integers, Sequences, FiniteSets, TLC

(***************************************************************************)
(* Python str operations                                                   *)
(***************************************************************************)

\* str.isspace() of one character, as strip() and split() use it.
Whitespace == {" ", "\t", "\n"}

UpperChars ==
  << "A", "B", "C", "D", "E", "F", "G", "H", "I", "J", "K", "L", "M",
     "N", "O", "P", "Q", "R", "S", "T", "U", "V", "W", "X", "Y", "Z",
     "u0420", "u0415", "u041f", "u041e", "u0422", "u0421", "u041a",
     "u041d", "u0426" >>

LowerChars ==
  << "a", "b", "c", "d", "e", "f", "g", "h", "i", "j", "k", "l", "m",
     "n", "o", "p", "q", "r", "s", "t", "u", "v", "w", "x", "y", "z",
     "u0440", "u0435", "u043f", "u043e", "u0442", "u0441", "u043a",
     "u043d", "u0446" >>

LowerChar(c) ==
  IF \E i \in 1..Len(UpperChars) : UpperChars[i] = c
  THEN LowerChars[CHOOSE i \in 1..Len(UpperChars) : UpperChars[i] = c]
  ELSE c

UpperChar(c) ==
  IF \E i \in 1..Len(LowerChars) : LowerChars[i] = c
  THEN UpperChars[CHOOSE i \in 1..Len(LowerChars) : LowerChars[i] = c]
  ELSE c

\* str.lower()
Lower(s) == [i \in 1..Len(s) |-> LowerChar(s[i])]

\* str.capitalize(): the first character upper-cased, the rest lower-cased.
Capitalize(s) ==
  [i \in 1..Len(s) |-> IF i = 1 THEN UpperChar(s[i]) ELSE LowerChar(s[i])]

\* str.strip()
Strip(s) ==
  LET ix == {i \in 1..Len(s) : s[i] \notin Whitespace}
  IN  IF ix = {} THEN << >>
      ELSE LET lo == CHOOSE i \in ix : \A j \in ix : i <= j
               hi == CHOOSE i \in ix : \A j \in ix : j <= i
           IN  SubSeq(s, lo, hi)

\* str.startswith(prefix)
StartsWith(s, p) == Len(s) >= Len(p) /\ SubSeq(s, 1, Len(p)) = p

\* str.split(): the maximal runs of non-whitespace characters, in order.
RECURSIVE SplitFrom(_, _, _, _)
SplitFrom(s, i, cur, acc) ==
  IF i > Len(s)
  THEN IF cur = << >> THEN acc ELSE Append(acc, cur)
  ELSE IF s[i] \in Whitespace
       THEN SplitFrom(s, i + 1, << >>,
                      IF cur = << >> THEN acc ELSE Append(acc, cur))
       ELSE SplitFrom(s, i + 1, Append(cur, s[i]), acc)

Split(s) == SplitFrom(s, 1, << >>, << >>)

\* " ".join(parts)
RECURSIVE JoinSpace(_)
JoinSpace(parts) ==
  IF parts = << >> THEN << >>
  ELSE IF Len(parts) = 1 THEN parts[1]
  ELSE parts[1] \o << " " >> \o JoinSpace(Tail(parts))

DigitChars == << "0", "1", "2", "3", "4", "5", "6", "7", "8", "9" >>

IsDigit(c) == \E i \in 1..10 : DigitChars[i] = c

DigitVal(c) == (CHOOSE i \in 1..10 : DigitChars[i] = c) - 1

AllDigits(s) == \A i \in 1..Len(s) : IsDigit(s[i])

\* int(s) of a string of digits
RECURSIVE NumVal(_)
NumVal(s) ==
  IF s = << >> THEN 0
  ELSE NumVal(SubSeq(s, 1, Len(s) - 1)) * 10 + DigitVal(s[Len(s)])

\* str(n) of an integer
RECURSIVE NatStr(_)
NatStr(n) ==
  IF n < 10 THEN << DigitChars[n + 1] >>
  ELSE Append(NatStr(n \div 10), DigitChars[(n % 10) + 1])

IntStr(n) == IF n < 0 THEN << "-" >> \o NatStr(0 - n) ELSE NatStr(n)

\* "%02d" % n, as strftime writes an hour, a minute, a second, a month, a day
Pad2(n) == << DigitChars[(n \div 10) + 1], DigitChars[(n % 10) + 1] >>

\* The parts of s between the occurrences of the character sep.
RECURSIVE FieldsFrom(_, _, _, _, _)
FieldsFrom(s, sep, i, cur, acc) ==
  IF i > Len(s) THEN Append(acc, cur)
  ELSE IF s[i] = sep
       THEN FieldsFrom(s, sep, i + 1, << >>, Append(acc, cur))
       ELSE FieldsFrom(s, sep, i + 1, Append(cur, s[i]), acc)

Fields(s, sep) == FieldsFrom(s, sep, 1, << >>, << >>)

(***************************************************************************)
(* Dates, times of day and instants                                        *)
(***************************************************************************)

\* The month every instant of the model lies in, as strftime("%Y-%m-%d")
\* writes it.
YearStr == << "2", "0", "2", "5" >>

MonthStr == << "0", "1" >>

\* A field of a strptime format: one or two digits, at most max.
Field2(f, max) == Len(f) \in {1, 2} /\ AllDigits(f) /\ NumVal(f) <= max

\* datetime.strptime(s, "%H:%M").time(): the second of the day, or -1 for
\* the ValueError.
StrptimeHM(s) ==
  LET f == Fields(s, ":")
  IN  IF Len(f) = 2 /\ Field2(f[1], 23) /\ Field2(f[2], 59)
      THEN NumVal(f[1]) * 3600 + NumVal(f[2]) * 60
      ELSE -1

\* datetime.strptime(s, "%H:%M:%S").time(); the format admits a second of
\* 60 or 61, which the datetime constructor then refuses.
StrptimeHMS(s) ==
  LET f == Fields(s, ":")
  IN  IF Len(f) = 3 /\ Field2(f[1], 23) /\ Field2(f[2], 59)
                    /\ Field2(f[3], 59)
      THEN NumVal(f[1]) * 3600 + NumVal(f[2]) * 60 + NumVal(f[3])
      ELSE -1

\* datetime.strptime(s, "%Y-%m-%d").date(): the day of the modelled month,
\* or -1 for the ValueError.
StrptimeYMD(s) ==
  LET f == Fields(s, "-")
  IN  IF /\ Len(f) = 3
         /\ f[1] = YearStr
         /\ Field2(f[2], 12) /\ NumVal(f[2]) = NumVal(MonthStr)
         /\ Field2(f[3], 31) /\ NumVal(f[3]) >= 1
      THEN NumVal(f[3])
      ELSE -1

\* datetime.fromisoformat(s).date() for what strptime refused: a date of
\* exactly ten characters followed by "T" or " " and a time.
FromIsoDate(s) ==
  IF /\ Len(s) > 11
     /\ s[11] \in {"T", " "}
     /\ StrptimeYMD(SubSeq(s, 1, 10)) # -1
     /\ Len(Fields(SubSeq(s, 1, 10), "-")[2]) = 2
     /\ Len(Fields(SubSeq(s, 1, 10), "-")[3]) = 2
     /\ \/ StrptimeHM(SubSeq(s, 12, Len(s))) # -1 /\ Len(s) = 16
        \/ StrptimeHMS(SubSeq(s, 12, Len(s))) # -1 /\ Len(s) = 19
  THEN StrptimeYMD(SubSeq(s, 1, 10))
  ELSE -1

\* dt.strftime("%Y-%m-%d")
DateStr(dt) == YearStr \o << "-" >> \o MonthStr \o << "-" >> \o Pad2(dt.day)

\* dt.strftime("%H:%M:%S"): the microsecond is not written.
TimeStr(dt) ==
  Pad2(dt.sec \div 3600) \o << ":" >> \o Pad2((dt.sec \div 60) % 60)
    \o << ":" >> \o Pad2(dt.sec % 60)

\* dt.strftime("%H:%M")
HourMinuteStr(dt) ==
  Pad2(dt.sec \div 3600) \o << ":" >> \o Pad2((dt.sec \div 60) % 60)

\* Python's None, where a datetime is expected.
None == [day |-> -1, sec |-> -1, us |-> 0]

\* datetime.combine(date, time, tzinfo=TZ)
Combine(day, sec) == [day |-> day, sec |-> sec, us |-> 0]

\* end >= start, as instants
AtOrAfter(end, start) ==
  \/ end.day > start.day
  \/ end.day = start.day /\ end.sec > start.sec
  \/ end.day = start.day /\ end.sec = start.sec /\ end.us >= start.us

\* (end - start) as whole seconds S and microseconds U in 0..999999, the
\* difference being S + U / 10^6 seconds.
DiffSeconds(end, start) ==
  LET s == (end.day - start.day) * 86400 + (end.sec - start.sec)
      u == end.us - start.us
  IN  IF u < 0 THEN << s - 1, u + 1000000 >> ELSE << s, u >>

\* A variant of TruncMinutes that floors, as // would.
TruncMinutesFloor(end, start) == DiffSeconds(end, start)[1] \div 60

\* int((end - start).total_seconds() / 60): int() truncates toward zero.
TruncMinutes(end, start) ==
  LET d == DiffSeconds(end, start)
  IN  IF d[1] >= 0 THEN d[1] \div 60
      ELSE IF d[2] = 0 THEN 0 - ((0 - d[1]) \div 60)
      ELSE 0 - ((0 - d[1] - 1) \div 60)

\* format_duration(minutes)
format_duration(minutes) ==
  IF minutes < 60 THEN IntStr(minutes) \o << " ", "m", "i", "n" >>
  ELSE LET hours == minutes \div 60
           mins == minutes % 60
       IN  IF mins > 0
           THEN IntStr(hours) \o << " ", "h", " " >> \o IntStr(mins)
                  \o << " ", "m", "i", "n" >>
           ELSE IntStr(hours) \o << " ", "h" >>

(***************************************************************************)
(* The time parsers of bot.py; now is get_local_now()                      *)
(***************************************************************************)

\* parse_time(text): the clock time on today's date, or None.
parse_time(text, now) ==
  IF StrptimeHM(text) = -1 THEN None ELSE Combine(now.day, StrptimeHM(text))

\* float(s) of a decimal numeral, as << numerator, denominator >>;
\* << -1, 1 >> for the ValueError.
RECURSIVE Pow10(_)
Pow10(k) == IF k = 0 THEN 1 ELSE 10 * Pow10(k - 1)

ParseFloat(s) ==
  LET f == Fields(s, ".")
  IN  IF Len(f) = 1 /\ f[1] # << >> /\ AllDigits(f[1])
      THEN << NumVal(f[1]), 1 >>
      ELSE IF /\ Len(f) = 2 /\ AllDigits(f[1]) /\ AllDigits(f[2])
              /\ f[1] \o f[2] # << >>
           THEN << NumVal(f[1] \o f[2]), Pow10(Len(f[2])) >>
           ELSE << -1, 1 >>

\* The numeric branch of parse_start_time_from_cells: the second of the day
\* for a fraction of a day in [0, 1), or -1 when time_obj stays None (not a
\* numeral, not in [0, 1), or an hour of 24 that datetime() refuses).
FractionTime(time_raw) ==
  IF (\E i \in 1..Len(time_raw) : time_raw[i] = ".")
       \/ (time_raw # << >> /\ AllDigits(time_raw))
  THEN LET q == ParseFloat(time_raw)
       IN  IF q[1] >= 0 /\ q[1] < q[2]
           THEN LET total_minutes == (2 * q[1] * 24 * 60 + q[2]) \div (2 * q[2])
                    hours == total_minutes \div 60
                    minutes == total_minutes % 60
                IN  IF hours <= 23 THEN hours * 3600 + minutes * 60 ELSE -1
           ELSE -1
  ELSE -1

\* parse_start_time_from_cells(date_str, time_str)
parse_start_time_from_cells(date_str, time_str, now) ==
  LET date_raw == Strip(date_str)
      time_raw == Strip(time_str)
      date_obj ==
        IF date_raw = << >> THEN now.day
        ELSE IF StrptimeYMD(date_raw) # -1 THEN StrptimeYMD(date_raw)
        ELSE IF FromIsoDate(date_raw) # -1 THEN FromIsoDate(date_raw)
        ELSE now.day
      time_obj ==
        IF FractionTime(time_raw) # -1 THEN FractionTime(time_raw)
        ELSE IF StrptimeHM(time_raw) # -1 THEN StrptimeHM(time_raw)
        ELSE StrptimeHMS(time_raw)
  IN  IF time_raw = << >> THEN now
      ELSE IF time_obj = -1 THEN now
      ELSE Combine(date_obj, time_obj)

(***************************************************************************)
(* The store: the rows below the header row, five cells each               *)
(***************************************************************************)

VARIABLES
  rows,        \* the sheet's data rows, in append order
  dateHeader,  \* the header of column 1, which the sheet alone decides
  creds,       \* whether module start-up bound the global creds
  clk,         \* the position of the wall clock in Clock
  hs,          \* each handler's position in echo and its local variables
  msgs,        \* the inbound messages delivered so far
  fired        \* the scheduler's job of the day has run

vars == << rows, dateHeader, creds, clk, hs, msgs, fired >>

\* The columns update_cell writes: End Time and Duration.
ColEnd == 4

ColDuration == 5

Header(dh) == << dh, "Activity", "Start Time", "End Time", "Duration" >>

\* sheet.get_all_records(): one dict per data row, keyed by the header row.
get_all_records(sheet, dh) ==
  [i \in 1..Len(sheet) |->
     [k \in {Header(dh)[c] : c \in 1..5} |->
        sheet[i][CHOOSE c \in 1..5 : Header(dh)[c] = k]]]

\* rec.get(key, "")
RecGet(rec, key) == IF key \in DOMAIN rec THEN rec[key] ELSE << >>

\* sheet.update_cell(row_number, col, value); row 1 is the header.
update_cell(sheet, row_number, col, value) ==
  [sheet EXCEPT ![row_number - 1][col] = value]

\* A variant of append_row that inserts the values as the first data row.
append_row_at_top(sheet, values) == << values >> \o sheet

\* sheet.append_row(values)
append_row(sheet, values) == Append(sheet, values)

\* The scan of echo for the open record: the index (from 0) of the last
\* record whose End Time, stripped, is empty; -1 when there is none.
RECURSIVE ScanOpen(_, _)
ScanOpen(records, idx) ==
  IF idx < 0 THEN -1
  ELSE IF Strip(RecGet(records[idx + 1], "End Time")) = << >> THEN idx
  ELSE ScanOpen(records, idx - 1)

\* A variant of the scan that stops before index 0, as range(n - 1, 0, -1)
\* would.
open_record_skips_first(records) ==
  IF ScanOpen(records, Len(records) - 1) = 0 THEN -1
  ELSE ScanOpen(records, Len(records) - 1)

\* A variant of the scan that runs forward and returns the first open record.
open_record_forward(records) ==
  IF ScanOpen(records, Len(records) - 1) = -1 THEN -1
  ELSE (CHOOSE i \in 1..Len(records) :
          /\ ScanOpen(records, i - 1) = i - 1
          /\ \A j \in 1..(i - 1) : ScanOpen(records, j - 1) = -1) - 1

open_record(records) == ScanOpen(records, Len(records) - 1)

(***************************************************************************)
(* The keywords of echo                                                    *)
(***************************************************************************)

\* The list text.lower() is looked up in: the Cyrillic word for report in
\* lower case, the same word capitalized, and "report".
ReportKeywords ==
  { << "u0440", "u0435", "u043f", "u043e", "u0440", "u0442" >>,
    << "u0420", "u0435", "u043f", "u043e", "u0440", "u0442" >>,
    << "r", "e", "p", "o", "r", "t" >> }

\* The prefixes of text.startswith: end, stop, and the Cyrillic words for
\* stop and end, finish.
EndKeywords ==
  { << "e", "n", "d" >>,
    << "s", "t", "o", "p" >>,
    << "u0441", "u0442", "u043e", "u043f" >>,
    << "u043a", "u043e", "u043d", "u0435", "u0446" >>,
    << "f", "i", "n", "i", "s", "h" >> }

(***************************************************************************)
(* The inputs of the model                                                 *)
(***************************************************************************)

\* The inbound messages handled in one behaviour.
MaxMsgs == 3

\* The inbound messages handled in one behaviour of concurrent handlers.
MaxConcurrentMsgs == 2

\* The instants the wall clock passes through: 09:00:10, 09:01:50.5 and
\* 14:20:00 on day 1, 00:10:00 on day 2.
Clock ==
  << [day |-> 1, sec |-> 32410, us |-> 0],
     [day |-> 1, sec |-> 32510, us |-> 500000],
     [day |-> 1, sec |-> 51600, us |-> 0],
     [day |-> 2, sec |-> 600, us |-> 0] >>

\* The inbound texts: "Gym", "go  Run", "gym  23:00", "09:00", "end",
\* "Stop 08:01", "report", " ".
Texts ==
  { << "G", "y", "m" >>,
    << "g", "o", " ", " ", "R", "u", "n" >>,
    << "g", "y", "m", " ", " ", "2", "3", ":", "0", "0" >>,
    << "0", "9", ":", "0", "0" >>,
    << "e", "n", "d" >>,
    << "S", "t", "o", "p", " ", "0", "8", ":", "0", "1" >>,
    << "r", "e", "p", "o", "r", "t" >>,
    << " " >> }

\* Rows other writers may have left in the sheet: a closed record, an open
\* one, and an open one whose End Time cell holds a blank.
RowClosed ==
  << << "2", "0", "2", "5", "-", "0", "1", "-", "0", "1" >>,
     << "S", "l", "e", "e", "p" >>,
     << "0", "8", ":", "0", "0", ":", "0", "0" >>,
     << "0", "8", ":", "3", "0", ":", "0", "0" >>,
     << "3", "0", " ", "m", "i", "n" >> >>

RowOpen ==
  << << "2", "0", "2", "5", "-", "0", "1", "-", "0", "1" >>,
     << "R", "e", "a", "d" >>,
     << "0", "8", ":", "4", "0", ":", "0", "0" >>,
     << >>,
     << >> >>

RowOpenBlank ==
  << << "2", "0", "2", "5", "-", "0", "1", "-", "0", "1" >>,
     << "W", "a", "l", "k" >>,
     << "0", "8", ":", "4", "5", ":", "0", "0" >>,
     << " " >>,
     << >> >>

\* The inbound messages handled in one behaviour on a sheet of day
\* fractions.
MaxFractionMsgs == 2

\* Start Time cells that Google Sheets returns as a number, the fraction of
\* the day, as str() prints them: 0.6875, 0.9999 and 1e-05.
FractionCells ==
  { << "0", ".", "6", "8", "7", "5" >>,
    << "0", ".", "9", "9", "9", "9" >>,
    << "1", "e", "-", "0", "5" >> }

\* Sheets whose one record is open and has a day fraction as Start Time.
FractionSheets ==
  { << [RowOpen EXCEPT ![3] = cell] >> : cell \in FractionCells }

\* The sheets the program may find at start-up with at most one open
\* record: no rows; a closed row followed by an open one.
InitSheets == { << >>, << RowClosed, RowOpenBlank >> }

\* Sheets with several open records.
CorruptSheets ==
  { << RowOpen, RowClosed, RowOpenBlank >>,
    << RowOpen, RowOpenBlank, RowClosed >> }

(***************************************************************************)
(* echo: the handler of a text message                                     *)
(***************************************************************************)

Handlers == {1, 2}

\* A text handed to update.message.reply_text: which message it is and the
\* values formatted into it.
ReplyText(kind, a, b) == [kind |-> kind, a |-> a, b |-> b]

NoReply == ReplyText("none", << >>, << >>)

\* A handler before its first message.  pre and seen record the sheet when
\* the message arrived and when get_all_records read it (scanned: it has);
\* idx is the index of open_record, -1 for None; sent lists the
\* replies delivered for the message, fails the collaborator calls of the
\* message that raised, raised whether an exception left echo.
IdleHandler ==
  [ pc |-> "idle", raw_text |-> << >>, pre |-> << >>, seen |-> << >>,
    scanned |-> FALSE, idx |-> -1, activity |-> << >>,
    start_dt |-> None, end_dt |-> None,
    duration_min |-> 0, row |-> << >>, out |-> NoReply, sent |-> << >>,
    fails |-> {}, raised |-> FALSE ]

\* A variant of Entry that sends every text to the read of the sheet.
EntryWithoutReport(message_text, sheet, bound) ==
  LET raw_text == Strip(message_text)
  IN  [ IdleHandler EXCEPT
          !.raw_text = raw_text,
          !.pre = sheet,
          !.raised = ~bound,
          !.pc = IF ~bound THEN "done" ELSE "read" ]

\* echo from its entry to the choice of a branch (lines 246-260): the
\* NameError of an unbound creds leaves echo; a summary keyword goes to the
\* report branch, anything else to the read of the sheet.
Entry(message_text, sheet, bound) ==
  LET raw_text == Strip(message_text)
      text == Strip(Lower(raw_text))
  IN  [ IdleHandler EXCEPT
          !.raw_text = raw_text,
          !.pre = sheet,
          !.raised = ~bound,
          !.pc = IF ~bound THEN "done"
                 ELSE IF Lower(text) \in ReportKeywords THEN "report"
                 ELSE "read" ]

\* A variant of IsEndCommand that compares the whole text with the keywords.
IsEndCommandExact(raw_text) == Strip(Lower(raw_text)) \in EndKeywords

\* text.startswith(("end", "stop", ...))
IsEndCommand(raw_text) ==
  \E k \in EndKeywords : StartsWith(Strip(Lower(raw_text)), k)

\* Line 295: if not open_record
NothingToEnd(open) == open = -1

\* A variant of Blocked that tests the index for truth, as "if idx" would.
BlockedIfIndexTruthy(open) == open > 0

\* Line 322: if open_record
Blocked(open) == open # -1

\* The end branch (lines 294-313) once the sheet is read.
EndBranch(h, records, now) ==
  LET open == h.idx
      parts == Split(h.raw_text)
      custom_end == IF Len(parts) >= 2 THEN parse_time(parts[Len(parts)], now)
                    ELSE None
      rec == records[open + 1]
      start_dt == parse_start_time_from_cells(RecGet(rec, "Date"),
                                              RecGet(rec, "Start Time"), now)
      end_dt == IF custom_end # None
                THEN Combine(start_dt.day, custom_end.sec)
                ELSE now
  IN  IF NothingToEnd(open)
      THEN [ h EXCEPT !.pc = "reply",
                      !.out = ReplyText("nothing_to_end", << >>, << >>) ]
      ELSE [ h EXCEPT !.pc = "update_end",
                      !.activity = RecGet(rec, "Activity"),
                      !.start_dt = start_dt,
                      !.end_dt = end_dt,
                      !.duration_min = TruncMinutes(end_dt, start_dt) ]

\* A variant of StartBranch that keeps the clock time in the activity.
StartBranchKeepsTime(h, records, now) ==
  LET open == h.idx
      parts == Split(h.raw_text)
      custom_start == parse_time(parts[Len(parts)], now)
      activity == Capitalize(Strip(JoinSpace(parts)))
      start_dt == IF custom_start # None THEN custom_start ELSE now
  IN  IF Blocked(open)
      THEN [ h EXCEPT !.pc = "reply",
                      !.out = ReplyText("end_first",
                                        records[open + 1]["Activity"], << >>) ]
      ELSE IF Len(parts) = 0
      THEN [ h EXCEPT !.pc = "reply",
                      !.out = ReplyText("empty_message", << >>, << >>) ]
      ELSE [ h EXCEPT !.pc = "append",
                      !.activity = activity,
                      !.start_dt = start_dt,
                      !.row = << DateStr(start_dt), activity,
                                 TimeStr(start_dt), << >>, << >> >> ]

\* The start branch (lines 322-341) once the sheet is read.
StartBranch(h, records, now) ==
  LET open == h.idx
      parts == Split(h.raw_text)
      custom_start == parse_time(parts[Len(parts)], now)
      activity ==
        IF custom_start # None
        THEN Capitalize(Strip(JoinSpace(SubSeq(parts, 1, Len(parts) - 1))))
        ELSE Capitalize(Strip(JoinSpace(parts)))
      start_dt == IF custom_start # None THEN custom_start ELSE now
  IN  IF Blocked(open)
      THEN [ h EXCEPT !.pc = "reply",
                      !.out = ReplyText("end_first",
                                        records[open + 1]["Activity"], << >>) ]
      ELSE IF Len(parts) = 0
      THEN [ h EXCEPT !.pc = "reply",
                      !.out = ReplyText("empty_message", << >>, << >>) ]
      ELSE [ h EXCEPT !.pc = "append",
                      !.activity = activity,
                      !.start_dt = start_dt,
                      !.row = << DateStr(start_dt), activity,
                                 TimeStr(start_dt), << >>, << >> >> ]

\* Lines 285-341: the scan for the open record and the branch taken.
AfterRead(h, sheet, dh, now) ==
  LET records == get_all_records(sheet, dh)
      seen == [ h EXCEPT !.seen = sheet, !.scanned = TRUE,
                         !.idx = open_record(records) ]
  IN  IF IsEndCommand(h.raw_text) THEN EndBranch(seen, records, now)
      ELSE StartBranch(seen, records, now)

(***************************************************************************)
(* The daily summary (src/features/report.py) and the texts replied        *)
(***************************************************************************)

\* The lengths of the answers of the summarization model, which decides
\* them, and of str(e) with the traceback of a failure.
AnswerLens == {120, 4500}

TraceLens == {300, 6000}

\* The slice of line 274: error_text[:4000].
MaxReplyLen == 4000

\* The length of text[:max].
SliceLen(len, max) == IF len > max THEN max ELSE len

\* report.py lines 29-37: the lines of the today block, one for each record
\* whose "Date Activity" value, trimmed, is today_str: activity and
\* duration, trimmed.
TodayLines(records, today_str) ==
  LET IsToday(r) == Strip(RecGet(r, "Date Activity")) = today_str
      today == SelectSeq(records, IsToday)
  IN  [ i \in 1..Len(today) |->
          << Strip(RecGet(today[i], "Activity")),
             Strip(RecGet(today[i], "Duration")) >> ]

\* report.py lines 69-73: the except clause calls logging.error, and the
\* module never imports logging (lines 1-9): the NameError leaves the
\* function before the return of line 73.
GptExcept == [ raised |-> TRUE, text |-> NoReply ]

\* generate_daily_report_with_gpt(sheet): raises names the call that raises
\* ("client" the OpenAI constructor, "read" get_all_records, "llm" the
\* completion; "none": no call raises), answer_len the length of the
\* answer, trimmed.  The result is the text returned, or raised.
generate_daily_report_with_gpt(sheet, dh, today, raises, answer_len) ==
  LET records == get_all_records(sheet, dh)
      today_str == DateStr(today)
  IN  IF raises \in {"client", "read"} THEN GptExcept
      ELSE IF records = << >>
      THEN [ raised |-> FALSE,
             text |-> ReplyText("report_empty", << >>, << >>) ]
      ELSE IF raises = "llm" THEN GptExcept
      ELSE [ raised |-> FALSE,
             text |-> ReplyText("report", TodayLines(records, today_str),
                                answer_len) ]

\* The sum of the lengths of the lines "{activity} - {duration}\n".
RECURSIVE LinesLen(_)
LinesLen(lines) ==
  IF Len(lines) = 0 THEN 0
  ELSE Len(Head(lines)[1]) + 3 + Len(Head(lines)[2]) + 1
         + LinesLen(Tail(lines))

\* len() of a text handed to reply_text: the characters of its literal and
\* of the values formatted into it.
ReplyLen(reply) ==
  CASE reply.kind = "nothing_to_end" -> 43
    [] reply.kind = "ended" -> 13 + Len(reply.a) + Len(reply.b)
    [] reply.kind = "end_first" -> 46 + Len(reply.a)
    [] reply.kind = "empty_message" -> 20
    [] reply.kind = "started" -> 16 + Len(reply.a) + Len(reply.b)
    [] reply.kind = "error" -> 36
    [] reply.kind = "report_empty" -> 40
    [] reply.kind = "report" ->
         25 + (IF Len(reply.a) = 0 THEN 28 ELSE LinesLen(reply.a))
            + 10 + reply.b
    [] reply.kind = "report_error" -> reply.b
    [] OTHER -> 0

(***************************************************************************)
(* The actions                                                             *)
(***************************************************************************)

now == Clock[clk]

Busy(h) == hs[h].pc \notin {"idle", "done"}

\* webhook hands an update to echo, which runs to the choice of its branch.
Receive(h, message_text, max) ==
  /\ ~Busy(h)
  /\ msgs < max
  /\ msgs' = msgs + 1
  /\ hs' = [hs EXCEPT ![h] = Entry(message_text, rows, creds)]
  /\ UNCHANGED << rows, dateHeader, creds, clk, fired >>

\* Lines 281-341: authorize, open and get_all_records, any of which may
\* raise; then the scan and the branch.
Read(h) ==
  /\ hs[h].pc = "read"
  /\ \E ok \in BOOLEAN :
       hs' = [hs EXCEPT ![h] =
                IF ok THEN AfterRead(hs[h], rows, dateHeader, now)
                ELSE [ hs[h] EXCEPT !.pc = "except",
                                    !.fails = @ \cup {"read"} ]]
  /\ UNCHANGED << rows, dateHeader, creds, clk, msgs, fired >>

\* A variant of UpdateEnd that counts the rows without the header row.
UpdateEndNoHeader(h) ==
  /\ hs[h].pc = "update_end"
  /\ \E ok \in BOOLEAN :
       IF ok
       THEN /\ rows' = update_cell(rows, hs[h].idx + 1, ColEnd,
                                   TimeStr(hs[h].end_dt))
            /\ hs' = [hs EXCEPT ![h].pc = "update_duration"]
       ELSE /\ rows' = rows
            /\ hs' = [hs EXCEPT ![h].pc = "except",
                                ![h].fails = @ \cup {"update_end"}]
  /\ UNCHANGED << dateHeader, creds, clk, msgs, fired >>

\* Line 315: sheet.update_cell(row_number, 4, end_dt.strftime("%H:%M:%S"))
UpdateEnd(h) ==
  /\ hs[h].pc = "update_end"
  /\ \E ok \in BOOLEAN :
       IF ok
       THEN /\ rows' = update_cell(rows, hs[h].idx + 2, ColEnd,
                                   TimeStr(hs[h].end_dt))
            /\ hs' = [hs EXCEPT ![h].pc = "update_duration"]
       ELSE /\ rows' = rows
            /\ hs' = [hs EXCEPT ![h].pc = "except",
                                ![h].fails = @ \cup {"update_end"}]
  /\ UNCHANGED << dateHeader, creds, clk, msgs, fired >>

\* Lines 316-318: sheet.update_cell(row_number, 5, duration_str), then the
\* reply is ready.
UpdateDuration(h) ==
  /\ hs[h].pc = "update_duration"
  /\ \E ok \in BOOLEAN :
       IF ok
       THEN /\ rows' = update_cell(rows, hs[h].idx + 2, ColDuration,
                                   format_duration(hs[h].duration_min))
            /\ hs' = [hs EXCEPT
                        ![h].pc = "reply",
                        ![h].out = ReplyText("ended", hs[h].activity,
                                     format_duration(hs[h].duration_min))]
       ELSE /\ rows' = rows
            /\ hs' = [hs EXCEPT ![h].pc = "except",
                                ![h].fails = @ \cup {"update_duration"}]
  /\ UNCHANGED << dateHeader, creds, clk, msgs, fired >>

\* Lines 344-353: sheet.append_row([...]), then the reply is ready.
AppendRow(h) ==
  /\ hs[h].pc = "append"
  /\ \E ok \in BOOLEAN :
       IF ok
       THEN /\ rows' = append_row(rows, hs[h].row)
            /\ hs' = [hs EXCEPT
                        ![h].pc = "reply",
                        ![h].out = ReplyText("started", hs[h].activity,
                                             HourMinuteStr(hs[h].start_dt))]
       ELSE /\ rows' = rows
            /\ hs' = [hs EXCEPT ![h].pc = "except",
                                ![h].fails = @ \cup {"append"}]
  /\ UNCHANGED << dateHeader, creds, clk, msgs, fired >>

\* A reply_text inside the try of lines 279-353 (lines 296, 318, 323, 330,
\* 353): delivered, or raising into the except of line 355.
Reply(h) ==
  /\ hs[h].pc = "reply"
  /\ \E ok \in BOOLEAN :
       hs' = [hs EXCEPT ![h] =
                IF ok THEN [ hs[h] EXCEPT !.pc = "done",
                                          !.sent = Append(@, hs[h].out) ]
                ELSE [ hs[h] EXCEPT !.pc = "except",
                                    !.fails = @ \cup {"reply"} ]]
  /\ UNCHANGED << rows, dateHeader, creds, clk, msgs, fired >>

\* Lines 355-357: the reply of the except clause; if it raises too, the
\* exception leaves echo.
Except(h) ==
  /\ hs[h].pc = "except"
  /\ \E ok \in BOOLEAN :
       hs' = [hs EXCEPT ![h] =
                IF ok
                THEN [ hs[h] EXCEPT
                         !.pc = "done",
                         !.sent = Append(@, ReplyText("error", << >>, << >>)) ]
                ELSE [ hs[h] EXCEPT !.pc = "done", !.raised = TRUE,
                                    !.fails = @ \cup {"reply"} ]]
  /\ UNCHANGED << rows, dateHeader, creds, clk, msgs, fired >>

\* Lines 262-268: authorize and open, which may raise, then
\* generate_daily_report_with_gpt, which reads the sheet once and returns
\* the text to send or raises.
Report(h) ==
  /\ hs[h].pc = "report"
  /\ \E raises \in {"open", "client", "read", "llm", "none"} :
       \E answer_len \in IF raises = "none" THEN AnswerLens ELSE {0} :
         LET r == generate_daily_report_with_gpt(rows, dateHeader, now,
                                                 raises, answer_len)
             read == [ hs[h] EXCEPT
                         !.seen = IF raises \in {"client", "read"}
                                  THEN @ ELSE rows ]
         IN  hs' = [hs EXCEPT ![h] =
                      IF raises = "open"
                      THEN [ hs[h] EXCEPT !.pc = "report_except",
                                          !.fails = @ \cup {"open"} ]
                      ELSE IF r.raised
                      THEN [ read EXCEPT
                               !.pc = "report_except",
                               !.fails = @ \cup {"report", raises} ]
                      ELSE [ read EXCEPT !.pc = "reply_report",
                                         !.out = r.text ]]
  /\ UNCHANGED << rows, dateHeader, creds, clk, msgs, fired >>

\* Line 269: reply_text(analysis), inside the try of the report branch.
ReplyReport(h) ==
  /\ hs[h].pc = "reply_report"
  /\ \E ok \in BOOLEAN :
       hs' = [hs EXCEPT ![h] =
                IF ok THEN [ hs[h] EXCEPT !.pc = "done",
                                          !.sent = Append(@, hs[h].out) ]
                ELSE [ hs[h] EXCEPT !.pc = "report_except",
                                    !.fails = @ \cup {"reply"} ]]
  /\ UNCHANGED << rows, dateHeader, creds, clk, msgs, fired >>

\* Lines 271-277: the except clause of the report branch replies
\* error_text[:4000], the literal of line 272 around str(e) and the
\* traceback; if the reply raises, the exception is printed and echo
\* returns.
ReportExcept(h) ==
  /\ hs[h].pc = "report_except"
  /\ \E ok \in BOOLEAN, n \in TraceLens :
       LET error_text ==
             ReplyText("report_error", << >>, SliceLen(34 + n, MaxReplyLen))
       IN  hs' = [hs EXCEPT ![h] =
                    IF ok
                    THEN [ hs[h] EXCEPT !.pc = "done",
                                        !.out = error_text,
                                        !.sent = Append(@, error_text) ]
                    ELSE [ hs[h] EXCEPT !.pc = "done",
                                        !.out = error_text,
                                        !.fails = @ \cup {"reply"} ]]
  /\ UNCHANGED << rows, dateHeader, creds, clk, msgs, fired >>

\* Lines 197-237: at 14:20 the scheduler's thread hands echo an update
\* whose text is the Cyrillic word for report, once a day.
ScheduledText == << "u0440", "u0435", "u043f", "u043e", "u0440", "u0442" >>

ScheduledMinute == 14 * 60 + 20

send_fake_report(h, max) ==
  /\ ~fired
  /\ now.sec \div 60 = ScheduledMinute
  /\ ~Busy(h)
  /\ msgs < max
  /\ fired' = TRUE
  /\ msgs' = msgs + 1
  /\ hs' = [hs EXCEPT ![h] = Entry(ScheduledText, rows, creds)]
  /\ UNCHANGED << rows, dateHeader, creds, clk >>

\* Time passes.
Tick ==
  /\ clk < Len(Clock)
  /\ clk' = clk + 1
  /\ UNCHANGED << rows, dateHeader, creds, hs, msgs, fired >>

\* One step of handler h, of at most max messages in all.
Step(h, max) ==
  \/ \E t \in Texts : Receive(h, t, max)
  \/ Read(h)
  \/ UpdateEnd(h)
  \/ UpdateDuration(h)
  \/ AppendRow(h)
  \/ Reply(h)
  \/ Except(h)
  \/ Report(h)
  \/ ReplyReport(h)
  \/ ReportExcept(h)
  \/ send_fake_report(h, max)

\* The state after the module is loaded: creds is bound unless loading the
\* credentials raised (lines 161-180); no message has arrived.
Init ==
  /\ rows \in InitSheets
  /\ dateHeader \in {"Date", "Date Activity"}
  /\ creds \in BOOLEAN
  /\ clk = 1
  /\ hs = [h \in Handlers |-> IdleHandler]
  /\ msgs = 0
  /\ fired = FALSE

\* Messages handled one at a time: one handler, each message run to its end
\* before the next is delivered.
NextSerial == Tick \/ Step(1, MaxMsgs)

Spec == Init /\ [][NextSerial]_vars

\* Messages handled one at a time on a sheet that other writers have left
\* with any number of open records.
InitAnySheet ==
  /\ rows \in InitSheets \cup CorruptSheets
  /\ dateHeader \in {"Date", "Date Activity"}
  /\ creds \in BOOLEAN
  /\ clk = 1
  /\ hs = [h \in Handlers |-> IdleHandler]
  /\ msgs = 0
  /\ fired = FALSE

SpecAnySheet == InitAnySheet /\ [][NextSerial]_vars

\* Messages handled one at a time on a sheet whose open record has a day
\* fraction as Start Time, which the end command gives to
\* parse_start_time_from_cells.
InitFractions ==
  /\ rows \in FractionSheets
  /\ dateHeader \in {"Date", "Date Activity"}
  /\ creds \in BOOLEAN
  /\ clk = 1
  /\ hs = [h \in Handlers |-> IdleHandler]
  /\ msgs = 0
  /\ fired = FALSE

NextFractions == Tick \/ Step(1, MaxFractionMsgs)

SpecFractions == InitFractions /\ [][NextFractions]_vars

\* Messages handled as the web server delivers them: a handler per request,
\* their steps interleaved.
NextConcurrent == Tick \/ \E h \in Handlers : Step(h, MaxConcurrentMsgs)

SpecConcurrent == Init /\ [][NextConcurrent]_vars

(***************************************************************************)
(* What the claims speak of                                                *)
(***************************************************************************)

\* A row is open: its End Time cell, trimmed, is empty.
IsOpen(row) == \A i \in 1..Len(row[4]) : row[4][i] \in Whitespace

\* The positions (from 1) of the open rows of a sheet.
OpenRows(sheet) == {i \in 1..Len(sheet) : IsOpen(sheet[i])}

\* The last open row of a sheet that has one.
LastOpen(sheet) ==
  CHOOSE i \in OpenRows(sheet) : \A j \in OpenRows(sheet) : j <= i

\* The session state of a sheet: which of its rows are open.
SessionState(sheet) == [i \in 1..Len(sheet) |-> IsOpen(sheet[i])]

\* The text, trimmed and case-folded, begins with an end keyword.
BeginsWithEndKeyword(message_text) ==
  LET t == Strip(Lower(Strip(message_text)))
  IN  \E k \in EndKeywords :
        Len(t) >= Len(k) /\ \A i \in 1..Len(k) : t[i] = k[i]

\* The text is one clock-time token and nothing else: removing the token
\* leaves an empty label.
OnlyClockTime(message_text) ==
  /\ Len(Split(message_text)) = 1
  /\ StrptimeHM(Split(message_text)[1]) # -1

\* The instant n seconds after dt (before it, for a negative n).
PlusSeconds(dt, n) ==
  [ day |-> dt.day + ((dt.sec + n) \div 86400),
    sec |-> (dt.sec + n) % 86400,
    us |-> dt.us ]

\* m is (end - start) in minutes, truncated toward zero.
IsTruncated(m, end, start) ==
  \/ /\ m >= 0
     /\ AtOrAfter(end, PlusSeconds(start, 60 * m))
     /\ ~AtOrAfter(end, PlusSeconds(start, 60 * (m + 1)))
  \/ /\ m <= 0
     /\ AtOrAfter(PlusSeconds(start, 60 * m), end)
     /\ ~AtOrAfter(PlusSeconds(start, 60 * (m - 1)), end)

\* m is (end - start) in minutes, rounded to the nearest whole minute (a tie
\* either way).
IsRounded(m, end, start) ==
  /\ AtOrAfter(end, PlusSeconds(start, 60 * m - 30))
  /\ AtOrAfter(PlusSeconds(start, 60 * m + 30), end)

\* The calls on the store collaborator.
StoreCalls == {"read", "append", "update_end", "update_duration"}

\* The handler of the serial specifications.
H == hs[1]

\* The end command of handler h has written the End Time cell.
EndTimeWritten(h) ==
  /\ h.scanned /\ h.end_dt # None
  /\ h.pc # "update_end" /\ "update_end" \notin h.fails

\* The end command of handler h has written the Duration cell.
DurationWritten(h) == h.out.kind = "ended"

\* The handler has finished its message.
Finished(h) == h.pc = "done"

(***************************************************************************)
(* The claims                                                              *)
(***************************************************************************)

\* C1: from a sheet with at most one open record, messages handled one at a
\* time leave at most one record with an empty end_time.
C1_SingleOpenSession == Cardinality(OpenRows(rows)) <= 1

\* C1's case: a start has been appended after a record was closed, and the
\* sheet holds one open record.
C1_Witness ==
  /\ Finished(H)
  /\ H.out.kind = "started"
  /\ Len(H.pre) >= 1
  /\ Len(rows) = Len(H.pre) + 1
  /\ Cardinality(OpenRows(rows)) = 1

\* C2: two start messages handled concurrently against a sheet with no open
\* session cannot both append: no state has two open records.
C2_ConcurrentStartsKeepOneOpen == Cardinality(OpenRows(rows)) <= 1

\* C3: with a session open, a text that neither is a summary keyword nor
\* begins with an end keyword changes nothing in the sheet, and the reply
\* names the open activity.
C3_BlockedStartChangesNothing ==
  (H.scanned /\ OpenRows(H.seen) # {} /\ ~BeginsWithEndKeyword(H.raw_text))
    => /\ rows = H.pre
       /\ H.pc \in {"reply", "except", "done"}
       /\ H.out = ReplyText("end_first", H.seen[LastOpen(H.seen)][2], << >>)
       /\ (Finished(H) /\ H.fails = {} => H.sent = << H.out >>)

\* C3's case: a start text met an open session and was answered.
C3_Witness ==
  /\ Finished(H)
  /\ H.scanned /\ OpenRows(H.seen) # {}
  /\ ~BeginsWithEndKeyword(H.raw_text)
  /\ Len(H.sent) = 1 /\ H.sent[1].kind = "end_first"

\* C4: in the start path with no open session, a text whose label is empty
\* once the trailing clock time is removed is rejected: no row is appended.
C4_EmptyLabelRejected ==
  (H.scanned /\ OpenRows(H.seen) = {} /\ OnlyClockTime(H.raw_text))
    => /\ H.pc # "append"
       /\ rows = H.pre

\* C5: every record an end command closes has its end at or after its start,
\* and the minute count given to format_duration is not negative.
C5_EndNotBeforeStart ==
  EndTimeWritten(H)
    => /\ AtOrAfter(H.end_dt, H.start_dt)
       /\ H.duration_min >= 0

\* C6 as stated: the duration an end command stores is format_duration of
\* the minutes between start and end rounded to the nearest minute.
C6_DurationRounded ==
  DurationWritten(H)
    => \E m \in (H.duration_min - 1)..(H.duration_min + 1) :
         /\ IsRounded(m, H.end_dt, H.start_dt)
         /\ rows[H.idx + 1][5] = format_duration(m)

\* C6 as amended: the duration an end command stores is format_duration of
\* the minutes between start and end truncated toward zero.
C6_DurationTruncated ==
  DurationWritten(H)
    => \E m \in (H.duration_min - 1)..(H.duration_min + 1) :
         /\ IsTruncated(m, H.end_dt, H.start_dt)
         /\ rows[H.idx + 1][5] = format_duration(m)

\* C6's case: an end command stored a duration where truncating and rounding
\* differ.
C6_Witness ==
  /\ DurationWritten(H)
  /\ ~IsRounded(H.duration_min, H.end_dt, H.start_dt)
  /\ rows[H.idx + 1][5] = format_duration(H.duration_min)

\* C7: when a store call fails while a message is handled, the session state
\* of the sheet after the message is the one before it.
C7_FailureLeavesSessionState ==
  (Finished(H) /\ H.fails \cap StoreCalls # {})
    => SessionState(rows) = SessionState(H.pre)

\* C8: every inbound message produces exactly one outbound reply.
C8_ExactlyOneReply == Finished(H) => Len(H.sent) = 1

\* C9: with no session open, a text that begins with an end keyword changes
\* nothing in the sheet and is answered that there is nothing to end.
C9_NothingToEnd ==
  (H.scanned /\ OpenRows(H.seen) = {} /\ BeginsWithEndKeyword(H.raw_text))
    => /\ rows = H.pre
       /\ H.pc \in {"reply", "except", "done"}
       /\ H.out = ReplyText("nothing_to_end", << >>, << >>)
       /\ (Finished(H) /\ H.fails = {} => H.sent = << H.out >>)

\* C9's case: an end keyword followed by another token met no open session
\* and was answered.
C9_Witness ==
  /\ Finished(H)
  /\ H.scanned /\ OpenRows(H.seen) = {}
  /\ BeginsWithEndKeyword(H.raw_text) /\ Len(Split(H.raw_text)) >= 2
  /\ Len(H.sent) = 1 /\ H.sent[1].kind = "nothing_to_end"

\* C10: the scan returns the open record of the highest index, and none when
\* no record is open.
C10_ScanReturnsLastOpen ==
  H.scanned
    => IF OpenRows(H.seen) = {} THEN H.idx = -1
       ELSE H.idx + 1 = LastOpen(H.seen)

\* C10's case: the scan met several open records, a closed one after them.
C10_Witness ==
  /\ H.scanned
  /\ Cardinality(OpenRows(H.seen)) >= 2
  /\ LastOpen(H.seen) < Len(H.seen)
  /\ H.idx + 1 = LastOpen(H.seen)

\* The text, trimmed and case-folded, is a summary keyword.
IsSummaryKeyword(message_text) ==
  Strip(Lower(Strip(message_text))) \in ReportKeywords

\* C11: a message equal to a summary keyword never appends a row or updates
\* a cell: the sheet is the one the message found, whether or not the
\* summarization succeeds.
C11_ReportTouchesNothing ==
  (H.pc # "idle" /\ IsSummaryKeyword(H.raw_text))
    => /\ rows = H.pre
       /\ H.pc \in {"report", "reply_report", "report_except", "done"}

\* C11's case: a summary request on a sheet with an open record was handled
\* to its end, the summarization having failed.
C11_Witness ==
  /\ Finished(H)
  /\ IsSummaryKeyword(H.raw_text)
  /\ "llm" \in H.fails
  /\ OpenRows(H.pre) # {}
  /\ rows = H.pre

\* The summarization collaborator failed while handler h ran
\* generate_daily_report_with_gpt: the construction of its client or the
\* completion call raised.
SummarizationFailed(h) == h.fails \cap {"client", "llm"} # {}

\* C12: when the summarization call fails, generate_daily_report_with_gpt
\* catches the failure and returns an error string: no exception leaves it,
\* and the text it returned is the one handed to the reply.
C12_GeneratorCatchesFailure ==
  SummarizationFailed(H)
    => /\ "report" \notin H.fails
       /\ H.pc \in {"reply_report", "done"}

\* Handler h handles the update of the scheduler.
IsScheduled(h) == h.raw_text = ScheduledText

\* Handler h's summary has read the sheet.
ReportHasRead(h) ==
  \/ h.out.kind \in {"report", "report_empty"}
  \/ "llm" \in h.fails

\* An end command is between its two cell updates.
MidEnd(h) == h.pc = "update_duration"

\* A row whose End Time is set while its Duration is still empty.
HalfClosed(row) == ~IsOpen(row) /\ row[5] = << >>

\* C13: the scheduled report takes the report branch of echo and never reads
\* the sheet while an end command is between its two cell updates, so the
\* sheet it reads has no half-closed row that the end command is writing.
C13_ScheduledReportSerialized ==
  [][ \A h \in Handlers :
        (IsScheduled(hs[h]) /\ hs[h].pc = "report" /\ ReportHasRead(hs'[h]))
          => \A g \in Handlers : ~MidEnd(hs[g]) ]_vars

\* C14: every text passed to reply_text is at most 4000 characters long,
\* the summary of the summarization model included.
C14_ReplyAtMostMaxLen == ReplyLen(H.out) <= MaxReplyLen

\* The sheet with the cell of column col of data row i (from 1) set to value.
WithCell(sheet, i, col, value) ==
  [ r \in 1..Len(sheet) |->
      [ c \in 1..Len(sheet[r]) |->
          IF r = i /\ c = col THEN value ELSE sheet[r][c] ] ]

\* C15: with exactly one open record at index i (data row i + 1, sheet row
\* i + 2), an end command changes the End Time cell of that row, then its
\* Duration cell, and no other cell; once both are written the sheet has no
\* open record.
C15_EndWritesOneRow ==
  (H.scanned /\ BeginsWithEndKeyword(H.raw_text)
     /\ Cardinality(OpenRows(H.seen)) = 1 /\ EndTimeWritten(H))
    => LET i == LastOpen(H.seen)
           ended == WithCell(H.pre, i, 4, TimeStr(H.end_dt))
       IN  /\ H.idx = i - 1
           /\ ~DurationWritten(H) => rows = ended
           /\ DurationWritten(H)
                => /\ rows = WithCell(ended, i, 5,
                                      format_duration(H.duration_min))
                   /\ OpenRows(rows) = {}
                   /\ open_record(get_all_records(rows, dateHeader)) = -1

\* C15's case: an end command closed the one open record, the second of two
\* rows, and was answered.
C15_Witness ==
  /\ Finished(H) /\ H.fails = {}
  /\ H.scanned /\ BeginsWithEndKeyword(H.raw_text)
  /\ Cardinality(OpenRows(H.seen)) = 1
  /\ LastOpen(H.seen) = 2
  /\ DurationWritten(H)
  /\ rows[2][4] = TimeStr(H.end_dt)
  /\ rows[1] = H.pre[1]

\* Data row i of the sheet is closed: its End Time, trimmed, is not empty.
IsClosedAt(sheet, i) == i \in 1..Len(sheet) /\ ~IsOpen(sheet[i])

\* C16: once the End Time of a record is set, no step of any later message
\* (start, end or report) changes its End Time or its Duration: a record is
\* updated by one end command, and the only write to a closed record is the
\* Duration of the end command that has just set its End Time.
C16_ClosedRecordNeverUpdated ==
  [][ \A i \in 1..Len(rows) :
        IsClosedAt(rows, i)
          => /\ IsClosedAt(rows', i)
             /\ rows'[i][4] = rows[i][4]
             /\ rows'[i][5] # rows[i][5]
                  => /\ rows[i][5] = << >>
                     /\ \E h \in Handlers :
                          /\ hs[h].pc = "update_duration"
                          /\ hs[h].idx = i - 1
                          /\ rows[i][4] = TimeStr(hs[h].end_dt) ]_vars

\* The whitespace tokens of a text but the last, joined by single spaces.
LabelBeforeTime(message_text) ==
  LET tokens == Split(message_text)
  IN  JoinSpace(SubSeq(tokens, 1, Len(tokens) - 1))

\* The last whitespace token of a text parses as a clock time.
EndsWithClockTime(message_text) ==
  LET tokens == Split(message_text)
  IN  Len(tokens) >= 1 /\ StrptimeHM(tokens[Len(tokens)]) # -1

\* The instant a start of the text has for its record when the clock shows
\* time: the clock time of the last token on that date, or time itself.
StartInstant(message_text, time) ==
  LET tokens == Split(message_text)
  IN  IF EndsWithClockTime(message_text)
      THEN [ day |-> time.day, sec |-> StrptimeHM(tokens[Len(tokens)]),
             us |-> 0 ]
      ELSE time

\* The row of a start whose instant is start and whose label is activity.
StartRow(start, activity) ==
  << DateStr(start), activity, TimeStr(start), << >>, << >> >>

\* Handler h is in the start path with no open session and has a row to
\* append.
StartsRecord(h) ==
  /\ h.scanned /\ OpenRows(h.seen) = {}
  /\ ~BeginsWithEndKeyword(h.raw_text)
  /\ h.raw_text # << >>

\* The row handler h has appended, if it has appended one.
Appended(h) == h.out.kind = "started" => rows = Append(h.pre, h.row)

\* C17 as stated: the row of a start has the clock time of the last token
\* on today's date and the remaining tokens, joined and capitalized, as
\* activity, or else the current time and the whole trimmed text,
\* capitalized; End Time and Duration are empty, the date is the start's.
C17_StartRowWholeText ==
  StartsRecord(H)
    => /\ \E c \in 1..clk :
            H.row = StartRow(StartInstant(H.raw_text, Clock[c]),
                       IF EndsWithClockTime(H.raw_text)
                       THEN Capitalize(LabelBeforeTime(H.raw_text))
                       ELSE Capitalize(Strip(H.raw_text)))
       /\ Appended(H)

\* C17 as amended: as stated, but without a clock time the activity is the
\* whitespace tokens of the text joined by single spaces and capitalized.
C17_StartRowJoinedTokens ==
  StartsRecord(H)
    => /\ \E c \in 1..clk :
            H.row = StartRow(StartInstant(H.raw_text, Clock[c]),
                       IF EndsWithClockTime(H.raw_text)
                       THEN Capitalize(LabelBeforeTime(H.raw_text))
                       ELSE Capitalize(JoinSpace(Split(H.raw_text))))
       /\ Appended(H)

\* C17's case: a start with a label and a clock time after a blank run has
\* appended its row after the rows of the sheet.
C17_Witness ==
  /\ Finished(H) /\ StartsRecord(H)
  /\ H.out.kind = "started"
  /\ Len(Split(H.raw_text)) >= 2
  /\ EndsWithClockTime(H.raw_text)
  /\ Len(H.raw_text) > Len(JoinSpace(Split(H.raw_text)))
  /\ Len(rows) >= 3
  /\ rows[Len(rows)] = H.row
  /\ H.row[2] = Capitalize(LabelBeforeTime(H.raw_text))

\* The numbers that str() prints as the fraction cells: numerator and
\* denominator.
FractionOf(cell) ==
  CASE cell = << "0", ".", "6", "8", "7", "5" >> -> << 6875, 10000 >>
    [] cell = << "0", ".", "9", "9", "9", "9" >> -> << 9999, 10000 >>
    [] cell = << "1", "e", "-", "0", "5" >> -> << 1, 100000 >>

\* round(f * 1440) for f = q[1] / q[2].
RoundedMinutes(q) == (2 * q[1] * 1440 + q[2]) \div (2 * q[2])

\* Handler h is an end command that has resolved the start of an open
\* record whose Start Time is a day fraction.
ResolvesFraction(h) ==
  /\ h.scanned /\ BeginsWithEndKeyword(h.raw_text)
  /\ OpenRows(h.seen) # {}
  /\ h.seen[LastOpen(h.seen)][3] \in FractionCells

\* C18: for a fraction f in [0, 1) as the stored time cell,
\* parse_start_time_from_cells returns the instant round(f * 1440) minutes
\* after midnight of the parsed date, also when the count reaches 1440, and
\* never the current time.
C18_FractionResolved ==
  ResolvesFraction(H)
    => LET m == RoundedMinutes(FractionOf(H.seen[LastOpen(H.seen)][3]))
       IN  /\ H.start_dt.sec = (60 * m) % 86400
           /\ H.start_dt.us = 0
           /\ dateHeader = "Date" => H.start_dt.day = 1 + (m \div 1440)

\* The lines of the today block for a sheet: activity and duration, trimmed,
\* of each row whose date cell is today_str.
RECURSIVE RowsDated(_, _)
RowsDated(sheet, today_str) ==
  IF sheet = << >> THEN << >>
  ELSE (IF Strip(Head(sheet)[1]) = today_str
        THEN << << Strip(Head(sheet)[2]), Strip(Head(sheet)[5]) >> >>
        ELSE << >>) \o RowsDated(Tail(sheet), today_str)

\* Handler h is an end command that has resolved the start of an open
\* record.
ResolvesOpen(h) ==
  /\ h.scanned /\ BeginsWithEndKeyword(h.raw_text)
  /\ OpenRows(h.seen) # {}

\* C19: the date cell a start writes is the one the end command and the
\* summary read: the summary's today block lists the records whose date cell
\* is today's date and no others, and the end command resolves the start of
\* the open record on the date of its date cell.
C19_OneDateCell ==
  /\ H.out.kind = "report"
       => \E c \in 1..clk :
            H.out.a = RowsDated(H.seen, DateStr(Clock[c]))
  /\ ResolvesOpen(H)
       => H.start_dt.day = StrptimeYMD(H.seen[LastOpen(H.seen)][1])

\* Handler h's end command has written both cells and no later message of
\* the handler has begun.
EndCompleted(h) == h.scanned /\ DurationWritten(h)

\* C20: when no end command is between its two cell updates and no call has
\* failed, the End Time and the Duration of a record that end commands have
\* closed are those of one and the same end command: two end commands on
\* the same open record never leave the End Time of one with the Duration
\* of the other.
C20_EndTimeAndDurationOfOneEnd ==
  (\A g \in Handlers : ~MidEnd(hs[g]) /\ hs[g].fails = {})
    => \A h \in Handlers :
         EndCompleted(hs[h])
           => \E g \in Handlers :
                /\ EndCompleted(hs[g])
                /\ hs[g].idx = hs[h].idx
                /\ rows[hs[h].idx + 1][4] = TimeStr(hs[g].end_dt)
                /\ rows[hs[h].idx + 1][5]
                     = format_duration(hs[g].duration_min)

\* The date, activity and start time of a row.
Identity(row) == << row[1], row[2], row[3] >>

\* The step is the append of a start by some handler.
StartAppends ==
  \E h \in Handlers :
    hs[h].pc = "append" /\ hs'[h].out.kind = "started"

\* C21: no step of a handler removes a row, moves one, or changes the date,
\* activity or start time of one; the row count grows by exactly one in the
\* append of a successful start and in no other step.
C21_RowsKeptAndCounted ==
  [][ /\ Len(rows') >= Len(rows)
      /\ \A i \in 1..Len(rows) : Identity(rows'[i]) = Identity(rows[i])
      /\ StartAppends => Len(rows') = Len(rows) + 1
      /\ ~StartAppends => Len(rows') = Len(rows) ]_vars

\* C21's case: after an end command closed the second of two rows, a start
\* appended a third; the first two kept their places and their date,
\* activity and start time.
C21_Witness ==
  /\ Finished(H)
  /\ H.out.kind = "started"
  /\ Len(rows) = 3
  /\ rows[1] = RowClosed
  /\ Identity(rows[2]) = Identity(RowOpenBlank)
  /\ rows[2][4] # RowOpenBlank[4]
  /\ rows[3] = H.row

=============================================================================
